---------------------------- MODULE Spec2Model ----------------------------
(***************************************************************************)
(* Dumroo AI: the query resolution pipeline (translator, validation,      *)
(* access scope enforcer, evaluator) behind POST /query, and the React    *)
(* client that drives it (RoleSelector, ChatPanel.handleSend,             *)
(* APIClient.postQuery with its response interceptor).                    *)
(*                                                                         *)
(* The server sources (server/main.py, access_control.py, query_agent.py) *)
(* are not part of the source tree at hand; the pipeline is modelled from *)
(* the specification.  The client is modelled from its code.              *)
(***************************************************************************)
EXTENDS Integers, Sequences, FiniteSets, TLC

(***************************************************************************)
(* Bounds of the model.                                                    *)
(***************************************************************************)
\* number of queries a behaviour may submit
MaxSends == 2

(***************************************************************************)
(* Values.  A predicate value, as it comes out of the external language    *)
(* service, is loosely typed: a tagged integer or string.                  *)
(***************************************************************************)
IntV(n) == [t |-> "int", i |-> n, s |-> ""]
StrV(x) == [t |-> "str", i |-> 0, s |-> x]

(***************************************************************************)
(* Record: one student row.  The dataset is a fixed, read-only, ordered    *)
(* sequence of Records.  Grade 7 holds two rows tied at the top score and  *)
(* one below; grade 8 holds a row above every grade-7 row; grade 9 and     *)
(* class C hold no rows.                                                   *)
(***************************************************************************)
Row(n, g, c, q, h) ==
    [name |-> n, grade |-> g, class_name |-> c, quiz_score |-> q,
     homework_submitted |-> h]

Dataset ==
    << Row("s1", 7, "A", 95, "Yes"),
       Row("s2", 7, "B", 95, "No"),
       Row("s3", 7, "A", 90, "No"),
       Row("s4", 8, "A", 98, "Yes"),
       Row("s5", 8, "B", 70, "No") >>

(***************************************************************************)
(* Schema Registry: fields, their value types, allowed operators and,      *)
(* where the field has one, its closed value set.                          *)
(***************************************************************************)
OrderOps == {"==", "!=", "<", "<=", ">", ">="}
EqOps    == {"==", "!="}

SchemaFields ==
    {"name", "grade", "class_name", "quiz_score", "homework_submitted"}

FieldType(f) ==
    IF f \in {"grade", "quiz_score"} THEN "int" ELSE "str"

AllowedOps(f) ==
    IF f \in {"grade", "quiz_score"} THEN OrderOps ELSE EqOps

resolve(f) == f \in SchemaFields

validOperator(f, op) == resolve(f) /\ op \in AllowedOps(f)

ValidValue(f, v) ==
    /\ resolve(f)
    /\ v.t = FieldType(f)
    /\ (f = "class_name" => v.s \in {"A", "B", "C"})
    /\ (f = "homework_submitted" => v.s \in {"Yes", "No"})
    /\ (f = "quiz_score" => v.i \in 0..100)

\* the value of field f of a row, tagged like a predicate value
FieldVal(row, f) ==
    CASE f = "grade"              -> IntV(row.grade)
      [] f = "quiz_score"         -> IntV(row.quiz_score)
      [] f = "class_name"         -> StrV(row.class_name)
      [] f = "homework_submitted" -> StrV(row.homework_submitted)
      [] OTHER                    -> StrV(row.name)

(***************************************************************************)
(* Condition Model.  A Predicate is {field, operator, value}.  A filter    *)
(* Condition is a disjunction (OR) of clauses, each a conjunction (AND) of *)
(* predicates: AND binds tighter than OR.  A ranking Condition names the   *)
(* ranking field and direction, and a conjunction of predicates that       *)
(* restricts the candidate pool.                                           *)
(***************************************************************************)
Pred(f, op, v) == [field |-> f, op |-> op, value |-> v]

Filter(clauses) ==
    [mode |-> "filter", clauses |-> clauses, field |-> "", direction |-> ""]

Ranking(f, dir, pool) ==
    [mode |-> "rank", clauses |-> <<pool>>, field |-> f, direction |-> dir]


(***************************************************************************)
(* RoleScope as it arrives in a request: the role selector's null stands   *)
(* for "any".                                                              *)
(***************************************************************************)
NullGrade == 0
NullClass == "null"

Grades  == {NullGrade, 7, 8, 9}
Classes == {NullClass, "A", "B", "C"}

RoleScope(g, c) == [grade |-> g, class_name |-> c]

InScope(row, role) ==
    /\ (role.grade # NullGrade => row.grade = role.grade)
    /\ (role.class_name # NullClass => row.class_name = role.class_name)

(***************************************************************************)
(* Natural-Language Translator.  The external service answers a query with *)
(* a raw candidate expression; which one is outside the program's control, *)
(* so a request may be answered with any member of RawCandidates.  The     *)
(* validation/repair step drops every predicate whose field, operator or   *)
(* value the Schema Registry does not admit; an expression with nothing    *)
(* usable left is TranslationInvalid.                                      *)
(***************************************************************************)
RawCandidates ==
    << \* 1: a grade named in the text, AND a score bound
       Filter(<< <<Pred("grade", "==", IntV(7)),
                  Pred("quiz_score", ">=", IntV(95))>> >>),
       \* 2: OR of two clauses
       Filter(<< <<Pred("class_name", "==", StrV("B"))>>,
                 <<Pred("grade", "==", IntV(8)),
                   Pred("quiz_score", ">", IntV(90))>> >>),
       \* 3: only a field the schema does not have
       Filter(<< <<Pred("favorite_color", "==", StrV("red"))>> >>),
       \* 4: "students who didn't submit homework", beside an unknown field
       Filter(<< <<Pred("favorite_color", "==", StrV("red")),
                  Pred("homework_submitted", "==", StrV("No"))>> >>),
       \* 5: an operator and a value the schema does not admit, nothing else
       Filter(<< <<Pred("class_name", "<", StrV("B"))>>,
                 <<Pred("quiz_score", "==", StrV("high"))>> >>),
       \* 6: the empty expression
       Filter(<< >>),
       \* 7: "who is topper from 7th class?"
       Ranking("quiz_score", "max", <<Pred("grade", "==", IntV(7))>>),
       \* 8: "who got highest marks in the entire school?"
       Ranking("quiz_score", "max", << >>),
       \* 9: lowest score of section A
       Ranking("quiz_score", "min", <<Pred("class_name", "==", StrV("A"))>>),
       \* 10: ranking on a field the schema does not have
       Ranking("favorite_color", "max", << >>) >>

ValidPred(p) ==
    validOperator(p.field, p.op) /\ ValidValue(p.field, p.value)

StripClause(cl) == SelectSeq(cl, ValidPred)

NonEmptyClause(cl) == Len(cl) > 0

\* a validation step that lets the candidate through as received
ValidateNothing(raw) == raw

\* the candidate with every inadmissible predicate removed
Validate(raw) ==
    LET stripped == [i \in DOMAIN raw.clauses |-> StripClause(raw.clauses[i])]
    IN  IF raw.mode = "rank"
        THEN [raw EXCEPT !.clauses = stripped]
        ELSE [raw EXCEPT !.clauses = SelectSeq(stripped, NonEmptyClause)]

\* whether anything usable is left of a validated candidate
Usable(cond) ==
    IF cond.mode = "rank"
    THEN /\ resolve(cond.field)
         /\ FieldType(cond.field) = "int"
         /\ cond.direction \in {"max", "min"}
    ELSE Len(cond.clauses) > 0

(***************************************************************************)
(* Access Scope Enforcer: a pure function from (Condition, RoleScope) to a *)
(* Condition.  For each restricted dimension of the RoleScope, whatever    *)
(* the candidate says about that field is replaced by an equality with the *)
(* RoleScope's value, in every clause of a filter and in the pool          *)
(* restriction of a ranking.                                               *)
(***************************************************************************)
NotOnGrade(p) == p.field # "grade"
NotOnClass(p) == p.field # "class_name"

ClampGrade(cl, role) ==
    IF role.grade = NullGrade THEN cl
    ELSE SelectSeq(cl, NotOnGrade) \o <<Pred("grade", "==", IntV(role.grade))>>

ClampClass(cl, role) ==
    IF role.class_name = NullClass THEN cl
    ELSE SelectSeq(cl, NotOnClass)
            \o <<Pred("class_name", "==", StrV(role.class_name))>>

\* an enforcer that only conjoins the scope and leaves the candidate's own
\* grade/class predicates in place
EnforceScopeConjoin(cond, role) ==
    [cond EXCEPT !.clauses =
        [i \in DOMAIN cond.clauses |->
            cond.clauses[i]
              \o (IF role.grade = NullGrade THEN << >>
                  ELSE <<Pred("grade", "==", IntV(role.grade))>>)
              \o (IF role.class_name = NullClass THEN << >>
                  ELSE <<Pred("class_name", "==", StrV(role.class_name))>>)]]

EnforceScope(cond, role) ==
    [cond EXCEPT !.clauses =
        [i \in DOMAIN cond.clauses |->
            ClampClass(ClampGrade(cond.clauses[i], role), role)]]

(***************************************************************************)
(* Query Evaluator.                                                        *)
(***************************************************************************)
Compare(a, op, b) ==
    IF a.t = "int"
    THEN CASE op = "==" -> a.i = b.i
           [] op = "!=" -> a.i # b.i
           [] op = "<"  -> a.i < b.i
           [] op = "<=" -> a.i <= b.i
           [] op = ">"  -> a.i > b.i
           [] OTHER     -> a.i >= b.i
    ELSE IF op = "==" THEN a.s = b.s ELSE a.s # b.s

Sat(row, p) == Compare(FieldVal(row, p.field), p.op, p.value)

SatClause(row, cl) == \A j \in DOMAIN cl : Sat(row, cl[j])

SatCondition(row, clauses) ==
    \E i \in DOMAIN clauses : SatClause(row, clauses[i])

\* the extreme (max or min) of a non-empty set of numbers
Extreme(vals, dir) ==
    IF dir = "max"
    THEN CHOOSE m \in vals : \A v \in vals : v <= m
    ELSE CHOOSE m \in vals : \A v \in vals : m <= v

\* an evaluator that returns a single winner of a ranking
EvaluateFirstOnly(cond) ==
    LET pool == SelectSeq(Dataset, LAMBDA r : SatCondition(r, cond.clauses))
    IN  IF cond.mode = "filter" \/ pool = << >>
        THEN pool
        ELSE LET vals == {FieldVal(pool[i], cond.field).i : i \in DOMAIN pool}
                 top  == Extreme(vals, cond.direction)
             IN  <<Head(SelectSeq(pool,
                          LAMBDA r : FieldVal(r, cond.field).i = top))>>

\* an evaluator that takes the extreme over the whole dataset
EvaluateGlobalExtreme(cond) ==
    LET pool == SelectSeq(Dataset, LAMBDA r : SatCondition(r, cond.clauses))
    IN  IF cond.mode = "filter" \/ pool = << >>
        THEN pool
        ELSE LET vals == {FieldVal(Dataset[i], cond.field).i :
                             i \in DOMAIN Dataset}
                 top  == Extreme(vals, cond.direction)
             IN  SelectSeq(pool, LAMBDA r : FieldVal(r, cond.field).i = top)

Evaluate(cond) ==
    LET pool == SelectSeq(Dataset, LAMBDA r : SatCondition(r, cond.clauses))
    IN  IF cond.mode = "filter" \/ pool = << >>
        THEN pool
        ELSE LET vals == {FieldVal(pool[i], cond.field).i : i \in DOMAIN pool}
                 top  == Extreme(vals, cond.direction)
             IN  SelectSeq(pool, LAMBDA r : FieldVal(r, cond.field).i = top)

(***************************************************************************)
(* QueryResult: the human-readable rendering of the condition used, the    *)
(* rows, and their count.  The rendering is a sequence of words.           *)
(***************************************************************************)
RenderValue(v) == IF v.t = "int" THEN ToString(v.i) ELSE v.s

RECURSIVE RenderClause(_)
RenderClause(cl) ==
    IF cl = << >> THEN << >>
    ELSE <<cl[1].field, cl[1].op, RenderValue(cl[1].value)>>
            \o (IF Len(cl) > 1 THEN <<"and">> ELSE << >>)
            \o RenderClause(Tail(cl))

RECURSIVE RenderClauses(_)
RenderClauses(cls) ==
    IF cls = << >> THEN << >>
    ELSE RenderClause(cls[1])
            \o (IF Len(cls) > 1 THEN <<"or">> ELSE << >>)
            \o RenderClauses(Tail(cls))

Render(cond) ==
    IF cond.mode = "rank"
    THEN <<cond.direction, cond.field, "where">> \o RenderClauses(cond.clauses)
    ELSE RenderClauses(cond.clauses)

QueryResult(cond, rows) ==
    [condition |-> Render(cond), results |-> rows, count |-> Len(rows)]

(***************************************************************************)
(* POST /query on the server: translate, validate, clamp to the RoleScope  *)
(* of the request, evaluate.  serviceUp tells whether the external         *)
(* language service answered; raw is the candidate it answered with.       *)
(* A response body is a JSON object, or empty; absent fields are "" / <<>>.*)
(***************************************************************************)
EmptyBody ==
    [isObject |-> FALSE, detail |-> "", message |-> "", error |-> "",
     condition |-> << >>, results |-> << >>, count |-> 0]

ErrorBody(detail) == [EmptyBody EXCEPT !.isObject = TRUE, !.detail = detail]

ResultBody(qr) ==
    [EmptyBody EXCEPT !.isObject = TRUE, !.condition = qr.condition,
                      !.results = qr.results, !.count = qr.count]

TranslationUnavailable == "translation service unavailable"
TranslationInvalid     == "could not understand query"

Reply(status, body) == [status |-> status, data |-> body]

\* a handler that reports an empty result as an error
HandleQueryEmptyFails(reqRole, raw, serviceUp) ==
    IF ~serviceUp
    THEN Reply("error", ErrorBody(TranslationUnavailable))
    ELSE LET validated == Validate(raw)
         IN  IF ~Usable(validated)
             THEN Reply("error", ErrorBody(TranslationInvalid))
             ELSE LET final == EnforceScope(validated, reqRole)
                      rows  == Evaluate(final)
                  IN  IF rows = << >>
                      THEN Reply("error", ErrorBody("no matching records"))
                      ELSE Reply("ok", ResultBody(QueryResult(final, rows)))

HandleQuery(reqRole, raw, serviceUp) ==
    IF ~serviceUp
    THEN Reply("error", ErrorBody(TranslationUnavailable))
    ELSE LET validated == Validate(raw)
         IN  IF ~Usable(validated)
             THEN Reply("error", ErrorBody(TranslationInvalid))
             ELSE LET final == EnforceScope(validated, reqRole)
                  IN  Reply("ok", ResultBody(QueryResult(final, Evaluate(final))))

(***************************************************************************)
(* APIClient (apis.js).  What axios hands back for the POST: a fulfilled   *)
(* response, or a rejection carrying a message and, when the server        *)
(* answered with an error status, the response.                            *)
(***************************************************************************)
Fulfilled(body) ==
    [fulfilled |-> TRUE, hasResponse |-> TRUE, data |-> body, message |-> ""]

Rejected(message, hasResponse, body) ==
    [fulfilled |-> FALSE, hasResponse |-> hasResponse, data |-> body,
     message |-> message]

\* a thrown JavaScript value: the properties the catch block reads
Thrown(hasResponse, data, message, detail, err, code) ==
    [hasResponse |-> hasResponse, data |-> data, message |-> message,
     detail |-> detail, error |-> err, code |-> code]

\* a || b || c on strings: "" and undefined are both falsy
Or2(a, b) == IF a # "" THEN a ELSE b
Or3(a, b, c) == Or2(a, Or2(b, c))

\* handleError(error): throws the response body when there is one, and a
\* NETWORK_ERROR object otherwise
handleError(e) ==
    IF e.hasResponse /\ e.data.isObject
    THEN Thrown(FALSE, EmptyBody, e.data.message, e.data.detail, e.data.error, "")
    ELSE Thrown(FALSE, EmptyBody, "", "", Or2(e.message, "Network error"),
                "NETWORK_ERROR")

\* the response interceptor installed by the constructor
Intercept(e) == handleError(e)

FailedToProcess == "Failed to process query"

\* postQuery without the final 'Failed to process query' fallback
postQueryNoFallback(ax) ==
    IF ax.fulfilled
    THEN ax.data
    ELSE LET e == Intercept(ax)
             errorData == IF e.hasResponse /\ e.data.isObject
                          THEN e.data ELSE EmptyBody
         IN  [EmptyBody EXCEPT
                 !.isObject = TRUE,
                 !.error = Or2(errorData.detail, e.message)]

\* postQuery(data): given what axios hands back; never rejects
postQuery(ax) ==
    IF ax.fulfilled
    THEN ax.data
    ELSE LET e == Intercept(ax)
             errorData == IF e.hasResponse /\ e.data.isObject
                          THEN e.data ELSE EmptyBody
         IN  [EmptyBody EXCEPT
                 !.isObject = TRUE,
                 !.error = Or3(errorData.detail, e.message, FailedToProcess)]

(***************************************************************************)
(* postQuery is an async function: what its caller awaits is a promise,    *)
(* fulfilled with the value the body returns or rejected with the value it *)
(* lets escape.  The body is one try/catch whose catch block returns.      *)
(***************************************************************************)
Nothing == Thrown(FALSE, EmptyBody, "", "", "", "")

Resolved(v) == [rejected |-> FALSE, value |-> v, reason |-> Nothing]

RejectedWith(e) == [rejected |-> TRUE, value |-> EmptyBody, reason |-> e]

\* postQuery without its catch block: what the interceptor throws escapes
postQueryAsyncNoCatch(ax) ==
    IF ax.fulfilled THEN Resolved(ax.data) ELSE RejectedWith(Intercept(ax))

\* the promise api.postQuery(data) settles to
postQueryAsync(ax) == Resolved(postQuery(ax))

(***************************************************************************)
(* The transport between client and server: the request reaches the server *)
(* and its reply comes back, or the network fails, or the axios timeout    *)
(* (30000 ms) expires first.                                               *)
(***************************************************************************)
Faults == {"none", "service_down", "network", "timeout"}

AxiosOutcome(reqRole, raw, fault) ==
    CASE fault = "network" -> Rejected("Network Error", FALSE, EmptyBody)
      [] fault = "timeout" ->
            Rejected("timeout of 30000ms exceeded", FALSE, EmptyBody)
      [] OTHER ->
            LET rep == HandleQuery(reqRole, raw, fault # "service_down")
            IN  IF rep.status = "ok" THEN Fulfilled(rep.data)
                ELSE Rejected("Request failed with status code 500", TRUE,
                              rep.data)

\* how the exchange ended, in the error taxonomy
Cause(raw, fault) ==
    CASE fault \in {"service_down", "network", "timeout"} ->
            "TranslationUnavailable"
      [] ~Usable(Validate(raw)) -> "TranslationInvalid"
      [] OTHER -> "none"

(***************************************************************************)
(* The client.  Query text is a sequence of characters.                    *)
(***************************************************************************)
Inputs == { << >>, <<" ">>, <<" ", "q">> }

IsSpace(c) == c = " "

RECURSIVE TrimStart(_)
TrimStart(t) ==
    IF t # << >> /\ IsSpace(Head(t)) THEN TrimStart(Tail(t)) ELSE t

RECURSIVE TrimEnd(_)
TrimEnd(t) ==
    IF t # << >> /\ IsSpace(t[Len(t)])
    THEN TrimEnd(SubSeq(t, 1, Len(t) - 1)) ELSE t

\* a trim that removes nothing
TrimNothing(t) == t

\* String.prototype.trim
Trim(t) == TrimEnd(TrimStart(t))

SessionId == "session"

(***************************************************************************)
(* Chat messages.  A message's text is kept as what it is made of: the     *)
(* query text of a user message, the error string of an error message,     *)
(* the count of a result message.  cause is not part of the message: it    *)
(* records how the exchange that produced the message ended.               *)
(***************************************************************************)
Msg(sender, kind, text, err, count, isError, cause) ==
    [sender |-> sender, kind |-> kind, text |-> text, error |-> err,
     count |-> count, isError |-> isError, cause |-> cause]

UserMsg(text) == Msg("user", "query", text, "", 0, FALSE, "none")

\* a setMessages that drops the transcript: setMessages([m])
WithMessageOnly(prev, m) == <<m>>

\* setMessages(prev => [...prev, m])
WithMessage(prev, m) == Append(prev, m)

\* '❌ Error: ' + res.error
ErrorMsg(err, cause) == Msg("bot", "error", << >>, err, 0, TRUE, cause)

\* `✅ Found ${res.count || 0} result(s) ...`, count: res.count
ResultMsg(count, cause) == Msg("bot", "result", << >>, "", count, FALSE, cause)

\* '⚠️ Network error - Please try again'
NetworkErrorMsg(cause) == Msg("bot", "network", << >>, "", 0, TRUE, cause)

\* role: { grade: role.grade, class_name: role.class_name }: the selector's
\* role has no class_name, so no class reaches the server
RequestRoleNoClass(r) == RoleScope(r.grade, NullClass)

\* role: { grade: role.grade, class_name: role.class }
RequestRole(r) == RoleScope(r.grade, r.class)

\* the candidate the translator received; none (0) when a fault came first
RawOf(r) == IF r = 0 THEN Filter(<< >>) ELSE RawCandidates[r]

\* sortConfig.key before any column was clicked (null)
NullKey == ""

VARIABLES
    role,        \* App: { grade, class } chosen in the RoleSelector
    input,       \* ChatPanel: the text in the input box
    loading,     \* ChatPanel: a query is being processed
    error,       \* ChatPanel: the error banner ('' when none)
    messages,    \* App: the chat transcript
    results,     \* App: rows shown by Dashboard and ResultsPanel
    condition,   \* App: the rendering of the condition shown
    pending,     \* POST /query requests awaiting their outcome
    last,        \* the pipeline alone: the exchange served last
    sortConfig,  \* ResultsPanel: { key, direction } of the table's sort
    streak       \* history: clicks in a row on the column sortConfig.key

vars == <<role, input, loading, error, messages, results, condition,
          pending, last, sortConfig, streak>>

\* what belongs to the ResultsPanel alone
panel == <<sortConfig, streak>>

\* One exchange: the selector's role, the request role made of it, the
\* candidate the translator received, the fault met and what axios hands back.
Exchange(ui, r, fault) ==
    [ui |-> ui, role |-> RequestRole(ui), raw |-> r, fault |-> fault,
     outcome |-> AxiosOutcome(RequestRole(ui), RawOf(r), fault)]

NoExchange ==
    [ui |-> [grade |-> NullGrade, class |-> NullClass],
     role |-> RoleScope(NullGrade, NullClass), raw |-> 0, fault |-> "none",
     outcome |-> Fulfilled(EmptyBody)]

Init ==
    /\ role = [grade |-> NullGrade, class |-> NullClass]
    /\ input = << >>
    /\ loading = FALSE
    /\ error = ""
    /\ messages = << >>
    /\ results = << >>
    /\ condition = << >>
    /\ pending = << >>
    /\ last = NoExchange
    /\ sortConfig = [key |-> NullKey, direction |-> "asc"]
    /\ streak = 0

IsUser(m) == m.sender = "user"
IsBot(m) == m.sender = "bot"

NumSent == Len(SelectSeq(messages, IsUser))
NumAnswered == Len(SelectSeq(messages, IsBot))

(***************************************************************************)
(* RoleSelector: the grade and class buttons.                              *)
(***************************************************************************)
\* a selector that writes the grade into the role object the requests in
\* flight were made of
SelectGradeInPlace(g) ==
    /\ role' = [role EXCEPT !.grade = g]
    /\ pending' = [k \in DOMAIN pending |->
                      [pending[k] EXCEPT !.role.grade = g]]
    /\ UNCHANGED <<panel, input, loading, error, messages, results, condition,
                   last>>

SelectGrade(g) ==
    /\ role' = [role EXCEPT !.grade = g]
    /\ UNCHANGED <<panel, input, loading, error, messages, results, condition,
                   pending, last>>

SelectClass(c) ==
    /\ role' = [role EXCEPT !.class = c]
    /\ UNCHANGED <<panel, input, loading, error, messages, results, condition,
                   pending, last>>

(***************************************************************************)
(* ChatPanel: typing into the input box (disabled while loading).          *)
(***************************************************************************)
TypeInput(t) ==
    /\ ~loading
    /\ input' = t
    /\ UNCHANGED <<panel, role, loading, error, messages, results, condition,
                   pending, last>>

(***************************************************************************)
(* ChatPanel.handleSend, up to the await: the guard on the input, the user *)
(* message, and the request handed to api.postQuery.                       *)
(***************************************************************************)
Request(text, r) ==
    [query |-> text, role |-> RequestRole(r), sessionId |-> SessionId]

\* handleSend without setError('')
ErrorAtSendKept(old) == old

\* setError('')
ErrorAtSend(old) == ""

HandleSend ==
    /\ NumSent < MaxSends
    /\ IF Trim(input) = << >>
       THEN UNCHANGED vars
       ELSE /\ error' = ErrorAtSend(error)
            /\ messages' = WithMessage(messages, UserMsg(input))
            /\ input' = << >>
            /\ loading' = TRUE
            /\ pending' = Append(pending, Request(input, role))
            /\ UNCHANGED <<panel, role, results, condition, last>>

(***************************************************************************)
(* ChatPanel.handleSend, from the await on: the outcome of the request     *)
(* arrives, api.postQuery resolves, and the handler finishes.              *)
(***************************************************************************)
\* if (res.error)
IsFailure(res) == res.error # ""

\* the success branch without setResults
NextResultsStale(res, old) == old

\* a setResults that adds the rows to those on display
NextResultsAdded(res, old) == old \o res.results

\* setResults(res.results || [])
NextResults(res, old) == res.results

\* the success branch without setCondition
NextConditionStale(res, old) == old

\* setCondition(res.condition || '')
NextCondition(res, old) == res.condition

RemoveAt(q, i) == SubSeq(q, 1, i - 1) \o SubSeq(q, i + 1, Len(q))

\* handleSend without its finally block
LoadingAtEndKept(old) == old

\* finally { setLoading(false) }
LoadingAtEnd(old) == FALSE

Complete(i, r, fault) ==
    /\ i \in DOMAIN pending
    /\ (fault = "none") = (r # 0)
    /\ LET req   == pending[i]
           p     == postQueryAsync(AxiosOutcome(req.role, RawOf(r), fault))
           res   == p.value
           cause == Cause(RawOf(r), fault)
       IN  IF p.rejected
           THEN \* catch (err)
                /\ error' = Or2(p.reason.message, "Network error")
                /\ messages' = WithMessage(messages, NetworkErrorMsg(cause))
                /\ UNCHANGED <<results, condition>>
           ELSE IF IsFailure(res)
           THEN /\ error' = res.error
                /\ messages' = WithMessage(messages, ErrorMsg(res.error, cause))
                /\ UNCHANGED <<results, condition>>
           ELSE /\ condition' = NextCondition(res, condition)
                /\ results' = NextResults(res, results)
                /\ messages' = WithMessage(messages, ResultMsg(res.count, cause))
                /\ UNCHANGED error
    /\ loading' = LoadingAtEnd(loading)
    /\ pending' = RemoveAt(pending, i)
    /\ UNCHANGED <<panel, role, input, last>>

Next ==
    \/ \E g \in Grades : SelectGrade(g)
    \/ \E c \in Classes : SelectClass(c)
    \/ \E t \in Inputs : TypeInput(t)
    \/ HandleSend
    \/ \E i \in DOMAIN pending, r \in 0..Len(RawCandidates), f \in Faults :
          Complete(i, r, f)

Spec == Init /\ [][Next]_vars

(***************************************************************************)
(* The pipeline alone, as a function of its inputs: any selector role, any *)
(* candidate from the translator and any fault, served one at a time.      *)
(***************************************************************************)
Roles == [grade : Grades, class : Classes]

Serve(ui, r, fault) ==
    /\ (fault = "none") = (r # 0)
    /\ last' = Exchange(ui, r, fault)
    /\ UNCHANGED <<panel, role, input, loading, error, messages, results,
                   condition, pending>>

NextPipeline ==
    \E ui \in Roles, r \in 0..Len(RawCandidates), f \in Faults : Serve(ui, r, f)

SpecPipeline == Init /\ [][NextPipeline]_vars

(***************************************************************************)
(* Properties of the pipeline (checked under SpecPipeline).                *)
(***************************************************************************)
Members(q) == {q[i] : i \in DOMAIN q}

PredsOf(cond) ==
    UNION {Members(cond.clauses[i]) : i \in DOMAIN cond.clauses}

\* the rows and the answer of the exchange served last
Rows == last.outcome.data.results
Answered == last.fault = "none" /\ last.raw # 0
Candidate == Validate(RawOf(last.raw))

\* p is a predicate on a dimension the role restricts
OnRestricted(p, sc) ==
    \/ p.field = "grade" /\ sc.grade # NullGrade
    \/ p.field = "class_name" /\ sc.class_name # NullClass

\* p constrains grade or class to values that exclude the role's own
Outside(p, sc) ==
    \/ /\ p.field = "grade" /\ sc.grade # NullGrade
       /\ ~Compare(IntV(sc.grade), p.op, p.value)
    \/ /\ p.field = "class_name" /\ sc.class_name # NullClass
       /\ ~Compare(StrV(sc.class_name), p.op, p.value)

Conflicting == \E p \in PredsOf(Candidate) : Outside(p, last.role)

\* what is left of a clause once the predicates on restricted dimensions go
Remaining(cl, sc) == SelectSeq(cl, LAMBDA p : ~OnRestricted(p, sc))

\* the rows of the role's scope that satisfy the remaining predicates
ScopedPool(cond, sc) ==
    SelectSeq(Dataset, LAMBDA row :
        /\ InScope(row, sc)
        /\ \E i \in DOMAIN cond.clauses :
              SatClause(row, Remaining(cond.clauses[i], sc)))

Pool == ScopedPool(Candidate, last.role)

\* no row of the pool beats row on field f in direction dir
IsExtremeIn(row, pool, f, dir) ==
    \A j \in DOMAIN pool :
        IF dir = "max"
        THEN FieldVal(pool[j], f).i <= FieldVal(row, f).i
        ELSE FieldVal(pool[j], f).i >= FieldVal(row, f).i

ExtremeRows(pool, f, dir) ==
    SelectSeq(pool, LAMBDA r : IsExtremeIn(r, pool, f, dir))

RankServed == Answered /\ Candidate.mode = "rank" /\ Usable(Candidate)

\* C1: Scope containment.  The role a request carries is the role chosen in
\* the selector, and whatever the translator proposed, every returned row has
\* the role's grade when the role restricts the grade and the role's class
\* when it restricts the class.
C1_ScopeContainment ==
    /\ last.role = RoleScope(last.ui.grade, last.ui.class)
    /\ \A i \in DOMAIN Rows :
          /\ last.ui.grade # NullGrade => Rows[i].grade = last.ui.grade
          /\ last.ui.class # NullClass => Rows[i].class_name = last.ui.class

\* a restricted role, a candidate asking for another grade or class, and rows
\* returned all the same
C1_Witness ==
    /\ Answered /\ last.outcome.fulfilled
    /\ last.ui.grade # NullGrade /\ last.ui.class # NullClass
    /\ Conflicting
    /\ Rows # << >>

\* C2: Override, not rejection.  When the candidate constrains grade or class
\* to a value outside a restricted RoleScope, the query is not an error and
\* returns the rows of the role's grade/class that satisfy the remaining
\* predicates (for a ranking: the extreme rows among them).
C2_OverrideNotReject ==
    (Answered /\ Usable(Candidate) /\ Conflicting) =>
        /\ last.outcome.fulfilled
        /\ Candidate.mode = "filter" => Rows = Pool
        /\ Candidate.mode = "rank" =>
              Rows = ExtremeRows(Pool, Candidate.field, Candidate.direction)
        /\ last.outcome.data.count = Len(Pool) \/ Candidate.mode = "rank"

\* a filter asking for grade 7 under a role of another grade, answered with
\* the role's rows
C2_Witness ==
    /\ Answered /\ Conflicting
    /\ Candidate.mode = "filter"
    /\ last.outcome.fulfilled
    /\ Rows # << >>
    /\ \A i \in DOMAIN Rows : Rows[i].grade = last.role.grade

\* the fields a raw candidate names that the schema does not have
UnknownFields(raw) ==
    ({p.field : p \in PredsOf(raw)}
        \cup (IF raw.mode = "rank" THEN {raw.field} ELSE {})) \ SchemaFields

\* C3: Validation rejection.  No field absent from the Schema Registry is in
\* the condition that was evaluated; a filter none of whose predicates names
\* a schema field ends as "could not understand query", with no rows.
C3_ValidationRejection ==
    Answered =>
        LET raw == RawOf(last.raw)
        IN  /\ last.outcome.fulfilled =>
                 UnknownFields(raw) \cap Members(last.outcome.data.condition) = {}
            /\ (raw.mode = "filter"
                  /\ \A p \in PredsOf(raw) : p.field \notin SchemaFields) =>
                 /\ ~last.outcome.fulfilled
                 /\ last.outcome.data.detail = TranslationInvalid
                 /\ Rows = << >>

\* the only clause names an unknown field, and the query failed
C3_Witness ==
    /\ Answered
    /\ PredsOf(RawOf(last.raw)) # {}
    /\ \A p \in PredsOf(RawOf(last.raw)) : p.field \notin SchemaFields
    /\ ~last.outcome.fulfilled
    /\ last.outcome.data.detail = TranslationInvalid

\* C4: Ranking tie inclusion.  A ranking returns exactly the rows of the
\* candidate pool that no pool row beats, all of them when several tie.
C4_RankingTieInclusion ==
    RankServed =>
        /\ last.outcome.fulfilled
        /\ Rows = ExtremeRows(Pool, Candidate.field, Candidate.direction)

\* two rows tie at the extreme of a pool that holds a third row
C4_Witness ==
    /\ RankServed
    /\ Len(Rows) >= 2
    /\ Len(Rows) < Len(Pool)

\* C5: Ranking over the pool.  Every row a ranking returns lies in the pool
\* left by the query's own restriction and the RoleScope and is extreme in
\* that pool; a non-empty pool gives a non-empty result, whatever the rows
\* outside the pool score.
C5_RankingOverPool ==
    RankServed =>
        /\ \A i \in DOMAIN Rows :
              /\ Rows[i] \in Members(Pool)
              /\ IsExtremeIn(Rows[i], Pool, Candidate.field, Candidate.direction)
        /\ Pool # << >> => Rows # << >>
        /\ \A k \in DOMAIN Dataset :
              Dataset[k] \notin Members(Pool) => Dataset[k] \notin Members(Rows)

\* "topper from 7th class" under an unrestricted role: grade-7 rows returned
\* while a row outside the pool scores higher
C5_Witness ==
    /\ RankServed
    /\ last.ui.grade = NullGrade /\ last.ui.class = NullClass
    /\ Candidate.direction = "max"
    /\ Len(Rows) = 2
    /\ \A i \in DOMAIN Rows : Rows[i].grade = 7
    /\ \E k \in DOMAIN Dataset :
          /\ Dataset[k] \notin Members(Pool)
          /\ Dataset[k].quiz_score > Rows[1].quiz_score

\* C6: Empty-pool ranking.  A ranking over an empty candidate pool is
\* answered with no rows and count 0, and the client does not see an error.
C6_EmptyPoolRanking ==
    (RankServed /\ Pool = << >>) =>
        /\ last.outcome.fulfilled
        /\ Rows = << >>
        /\ last.outcome.data.count = 0
        /\ ~IsFailure(postQuery(last.outcome))

\* a ranking served over a grade without records
C6_Witness ==
    /\ RankServed
    /\ Pool = << >>
    /\ last.outcome.fulfilled
    /\ last.outcome.data.count = 0

(***************************************************************************)
(* Properties of the client driving the pipeline (checked under Spec).     *)
(***************************************************************************)
ResultIdx == {i \in DOMAIN messages : messages[i].kind = "result"}

LastOf(S) == CHOOSE i \in S : \A j \in S : j <= i

\* C7: Count and rows agree.  The count shown in the chat message of the
\* last successful query is the number of rows the dashboard was given by
\* that response ('Total Results' is results.length).
C7_CountMatchesRows ==
    ResultIdx # {} => messages[LastOf(ResultIdx)].count = Len(results)

\* two successful queries with different counts, the later one of two rows
\* or more
C7_Witness ==
    /\ Cardinality(ResultIdx) = 2
    /\ \E i \in ResultIdx : messages[i].count # Len(results)
    /\ Len(results) >= 2
    /\ messages[LastOf(ResultIdx)].count = Len(results)

\* C8: An unreachable or timed-out translation is an error.  Every bot
\* message of an exchange that ended TranslationUnavailable is an error
\* message with a non-empty error, never a result message.
C8_UnavailableIsError ==
    \A i \in DOMAIN messages :
        messages[i].cause = "TranslationUnavailable" =>
            /\ messages[i].kind = "error"
            /\ messages[i].isError
            /\ messages[i].error # ""

\* the exchange completed last ended TranslationUnavailable and its error
\* is on display
C8_Witness ==
    /\ messages # << >>
    /\ messages[Len(messages)].cause = "TranslationUnavailable"
    /\ messages[Len(messages)].kind = "error"
    /\ error = messages[Len(messages)].error
    /\ ~loading

\* C9: TranslationInvalid and TranslationUnavailable are distinguishable.
\* No error message of an exchange that ended TranslationInvalid carries the
\* error value of one that ended TranslationUnavailable.
C9_FailuresDistinguishable ==
    \A i, j \in DOMAIN messages :
        (messages[i].cause = "TranslationInvalid"
            /\ messages[j].cause = "TranslationUnavailable") =>
                messages[i].error # messages[j].error

\* C10: Failure isolation.  An exchange ends in a result message exactly
\* when nothing failed in it, whatever came before it; no error is on
\* display while a query is being processed; and every accepted send clears
\* the error left by an earlier failure.
C10_FailureIsolation ==
    /\ [](\A i \in DOMAIN messages :
             IsBot(messages[i]) =>
                (messages[i].kind = "result" <=> messages[i].cause = "none"))
    /\ [](loading => error = "")
    /\ [][NumSent' > NumSent => error' = ""]_vars

\* a failed query, then a query that succeeded with the error cleared
C10_Witness ==
    /\ Len(messages) = 4
    /\ messages[2].kind = "error"
    /\ messages[4].kind = "result"
    /\ messages[4].count > 0
    /\ error = ""

(***************************************************************************)
(* Progress.  The POST carries the axios timeout, so the outcome of every  *)
(* request that was issued arrives: a reply, a network failure or the      *)
(* timeout.  Nothing obliges the user to type or submit.  The role         *)
(* selector touches neither loading nor the requests in flight; under      *)
(* SpecLive the selection stays as it was at the start.                    *)
(***************************************************************************)
Arrive ==
    \E i \in DOMAIN pending, r \in 0..Len(RawCandidates), f \in Faults :
        Complete(i, r, f)

NextLive ==
    \/ \E t \in Inputs : TypeInput(t)
    \/ HandleSend
    \/ Arrive

SpecLive == Init /\ [][NextLive]_vars /\ WF_vars(Arrive)

\* C11: No query hangs.  Every submitted query is eventually answered by a
\* bot message, and whenever loading is true it is eventually false again,
\* whether the request succeeded, returned an error or threw.
C11_NoQueryHangs ==
    /\ loading ~> ~loading
    /\ \A n \in 1..MaxSends : (NumSent >= n) ~> (NumAnswered >= n)

\* two queries answered, one of them cut off by the timeout, and the panel
\* idle again
C11_Witness ==
    /\ NumAnswered >= 2
    /\ \E i \in DOMAIN messages :
          messages[i].kind = "error"
            /\ messages[i].cause = "TranslationUnavailable"
    /\ \E i \in DOMAIN messages : messages[i].kind = "result"
    /\ ~loading /\ pending = << >>

(***************************************************************************)
(* Dashboard: the 'Average Quiz Score' chart (scores) over the results it  *)
(* is given.  The Dashboard reads two keys of a row, class and quiz_score; *)
(* a row without a class has class "".  An average is kept in tenths: avg  *)
(* 83.3 is avg10 833.                                                      *)
(***************************************************************************)
\* rows the Dashboard or the ResultsPanel may be given at once
MaxRows == 3

ChartClasses == {"", "A", "B", "C"}
ChartScores == {70, 80, 90}

ChartRow(c, q) == [class |-> c, quiz_score |-> q]

ChartRows == {ChartRow(c, q) : c \in ChartClasses, q \in ChartScores}

\* r.class || 'Unknown'
ClassOf(r) == IF r.class = "" THEN "Unknown" ELSE r.class

\* results.forEach(r => { ... }): the map, its keys in insertion order
RECURSIVE Tally(_, _)
Tally(rows, map) ==
    IF rows = << >> THEN map
    ELSE LET r   == Head(rows)
             cls == ClassOf(r)
             at  == {k \in DOMAIN map : map[k].name = cls}
         IN  Tally(Tail(rows),
                   IF at = {}
                   THEN Append(map, [name |-> cls, total |-> r.quiz_score,
                                     count |-> 1])
                   ELSE LET k == CHOOSE k \in at : TRUE
                        IN  [map EXCEPT ![k].total = @ + r.quiz_score,
                                        ![k].count = @ + 1])

\* a toFixed(1) that cuts the digits off instead of rounding
ToFixed1Truncating(total, count) == (10 * total) \div count

\* +(total / count).toFixed(1), in tenths: the nearest tenth, the upper one
\* of two equally near
ToFixed1(total, count) == (20 * total + count) \div (2 * count)

Scores(rows) ==
    IF rows = << >> THEN << >>
    ELSE LET map == Tally(rows, << >>)
         IN  [k \in DOMAIN map |->
                 [name |-> map[k].name,
                  avg10 |-> ToFixed1(map[k].total, map[k].count)]]

\* useMemo(..., [results])
scores == Scores(results)

\* the Dashboard is given a result set one row longer
GiveRow(r) ==
    /\ Len(results) < MaxRows
    /\ results' = Append(results, r)
    /\ UNCHANGED <<panel, role, input, loading, error, messages, condition,
                   pending, last>>

NextDashboard == \E r \in ChartRows : GiveRow(r)

SpecDashboard == Init /\ [][NextDashboard]_vars

RECURSIVE SumOfScores(_)
SumOfScores(rows) ==
    IF rows = << >> THEN 0
    ELSE Head(rows).quiz_score + SumOfScores(Tail(rows))

GroupOf(c) == SelectSeq(results, LAMBDA r : ClassOf(r) = c)

FirstAt(c) ==
    CHOOSE i \in DOMAIN results :
        /\ ClassOf(results[i]) = c
        /\ \A j \in 1..(i - 1) : ClassOf(results[j]) # c

\* every class of the rows has one entry, and every entry is of a class of
\* the rows, in order of first appearance
OneEntryPerGroup ==
    /\ \A i \in DOMAIN results :
          \E k \in DOMAIN scores : scores[k].name = ClassOf(results[i])
    /\ \A k \in DOMAIN scores : GroupOf(scores[k].name) # << >>
    /\ \A k, l \in DOMAIN scores :
          k < l => FirstAt(scores[k].name) < FirstAt(scores[l].name)

\* C12: Aggregation correctness.  Each class that occurs in the rows is
\* reported with exactly the arithmetic mean of quiz_score over its rows,
\* and a class without rows has no entry.
C12_GroupedMeanExact ==
    /\ OneEntryPerGroup
    /\ \A k \in DOMAIN scores :
          LET g == GroupOf(scores[k].name)
          IN  scores[k].avg10 * Len(g) = 10 * SumOfScores(g)

\* What the chart does report: each class that occurs in the rows (a row
\* without a class counts under 'Unknown') once, in order of first
\* appearance, with the mean of quiz_score over its rows rounded to one
\* decimal, the tenth nearest to the mean; a class without rows has no entry.
GroupedMeanRounded ==
    /\ OneEntryPerGroup
    /\ \A k \in DOMAIN scores :
          LET g == GroupOf(scores[k].name)
              d == 2 * (scores[k].avg10 * Len(g) - 10 * SumOfScores(g))
          IN  -Len(g) < d /\ d <= Len(g)

\* classes A, A, B with scores 80, 90, 70: A = 85.0 and B = 70.0, nothing
\* for C
SpecExampleShown ==
    /\ results = <<ChartRow("A", 80), ChartRow("A", 90), ChartRow("B", 70)>>
    /\ scores = <<[name |-> "A", avg10 |-> 850], [name |-> "B", avg10 |-> 700]>>

(***************************************************************************)
(* Further properties of the client (checked under Spec).                  *)
(***************************************************************************)
\* empty, or white space only
IsBlank(t) == \A k \in DOMAIN t : t[k] = " "

\* C13: The query text handed on is never blank.  Every request issued and
\* every user message carries text that is not empty and not only white
\* space; while the input is blank no step issues a request, appends a user
\* message or turns loading on.
C13_BlankInputIgnored ==
    /\ [](\A k \in DOMAIN pending : ~IsBlank(pending[k].query))
    /\ [](\A k \in DOMAIN messages :
             IsUser(messages[k]) => ~IsBlank(messages[k].text))
    /\ [][IsBlank(input) =>
             /\ Len(pending') <= Len(pending)
             /\ NumSent' = NumSent
             /\ (loading' => loading)]_vars

\* a query was answered, and the input box now holds white space only
C13_Witness ==
    /\ input = <<" ">>
    /\ NumSent = 1 /\ NumAnswered = 1
    /\ ~loading /\ pending = << >>

\* C15: The RoleScope of a request is fixed at submission.  A request that is
\* issued carries the grade and class the selector shows at that moment
\* (class as class_name, 'All' as null), whatever the query text; a selection
\* made while requests are in flight changes none of them, and a request
\* stays as it was issued until its outcome arrives.
C15_RoleFixedAtSubmission ==
    /\ [][Len(pending') > Len(pending) =>
             /\ SubSeq(pending', 1, Len(pending)) = pending
             /\ \A k \in (Len(pending) + 1)..Len(pending') :
                   /\ pending'[k].role.grade = role.grade
                   /\ pending'[k].role.class_name = role.class]_vars
    /\ [][role' # role => pending' = pending]_vars
    /\ [][Len(pending') = Len(pending) => pending' = pending]_vars

\* a request issued under one selection is in flight while the selector
\* shows another grade and another class
C15_Witness ==
    /\ pending # << >>
    /\ pending[1].role.grade # role.grade
    /\ pending[1].role.class_name # role.class
    /\ pending[1].role.grade # NullGrade
    /\ loading

\* C17: The transcript is append-only and paired.  No step removes, replaces
\* or reorders a message; a step that issues requests appends one user
\* message for each and nothing else; a step that completes a request
\* completes one and appends one bot message and nothing else.  So there are
\* never more bot messages than user messages, the difference is the number
\* of requests in flight, and they are equal when none is.
C17_TranscriptAppendOnly ==
    /\ [](NumAnswered <= NumSent)
    /\ [](NumSent = NumAnswered + Len(pending))
    /\ [](pending = << >> => NumAnswered = NumSent)
    /\ [][/\ Len(messages') >= Len(messages)
          /\ SubSeq(messages', 1, Len(messages)) = messages]_vars
    /\ [][Len(pending') > Len(pending) =>
             /\ Len(messages') - Len(messages) = Len(pending') - Len(pending)
             /\ \A k \in (Len(messages) + 1)..Len(messages') :
                   IsUser(messages'[k])]_vars
    /\ [][Len(pending') < Len(pending) =>
             /\ Len(pending') = Len(pending) - 1
             /\ Len(messages') = Len(messages) + 1
             /\ IsBot(messages'[Len(messages')])]_vars
    /\ [][Len(pending') = Len(pending) => messages' = messages]_vars

\* two queries, each followed by its answer, and nothing in flight
C17_Witness ==
    /\ Len(messages) = 4
    /\ IsUser(messages[1]) /\ IsBot(messages[2])
    /\ IsUser(messages[3]) /\ IsBot(messages[4])
    /\ messages[2].kind = "result" /\ messages[4].kind = "error"
    /\ pending = << >>

\* the step appended a bot message of one of the kinds
Answers(kinds) ==
    /\ Len(messages') = Len(messages) + 1
    /\ IsBot(messages'[Len(messages')])
    /\ messages'[Len(messages')].kind \in kinds

\* rows and cond are the rows and the condition of one response to a request
\* in flight
OfOneResponse(rows, cond) ==
    \E k \in DOMAIN pending, r \in 1..Len(RawCandidates) :
        LET rep == HandleQuery(pending[k].role, RawCandidates[r], TRUE)
        IN  /\ rep.status = "ok"
            /\ rows = rep.data.results
            /\ cond = rep.data.condition

\* C19: A failed query leaves results and condition as they were.  A step
\* that ends a query in an error or network-error message changes neither;
\* they change only in a step that ends a query in a result message, and
\* after such a step both are the values of that one response.
C19_FailureKeepsResults ==
    /\ [][Answers({"error", "network"}) =>
             results' = results /\ condition' = condition]_vars
    /\ [][(results' # results \/ condition' # condition) =>
             Answers({"result"})]_vars
    /\ [][Answers({"result"}) => OfOneResponse(results', condition')]_vars

\* a query failed after one that succeeded: the rows and the condition of
\* the earlier query are still shown, next to the error
C19_Witness ==
    /\ Len(messages) = 4
    /\ messages[2].kind = "result" /\ messages[2].count > 0
    /\ messages[4].kind = "error"
    /\ Len(results) = messages[2].count
    /\ condition # << >>
    /\ error # ""

\* C20 (as claimed): The rows on display lie within the Active Scope.  After
\* any selections and queries, every row shown has the grade the selector
\* shows, unless it shows 'All Grades', and the class it shows, unless it
\* shows 'All Classes'.
C20_RowsWithinActiveScope ==
    \A k \in DOMAIN results : InScope(results[k], RequestRole(role))

\* C20 (amended): The rows on display lie within the scope their query was
\* sent with.  A request carries the grade and class selected when it was
\* submitted; when a query ends in a result, every row then shown lies
\* within the scope of that request; and the rows shown change at no other
\* step, in particular not when the selection changes.
C20_RowsWithinRequestScope ==
    /\ [][\A k \in (Len(pending) + 1)..Len(pending') :
             pending'[k].role = RoleScope(role.grade, role.class)]_vars
    /\ [][Answers({"result"}) =>
             \E k \in DOMAIN pending :
                /\ pending' = RemoveAt(pending, k)
                /\ \A j \in DOMAIN results' :
                      InScope(results'[j], pending[k].role)]_vars
    /\ [][results' # results => Answers({"result"})]_vars
    /\ [][role' # role => results' = results]_vars

\* rows of grade 7, returned under 'Grade 7', are on display while the
\* selector shows 'Grade 8'
C20_Witness ==
    /\ results # << >>
    /\ \A k \in DOMAIN results : results[k].grade = 7
    /\ role.grade = 8
    /\ pending = << >>
    /\ NumAnswered = 1

(***************************************************************************)
(* Two submit events handled before the component renders again.  Both     *)
(* run the handleSend of the same render, so both read the same input and  *)
(* the same role; what tells handleSend that a query is being processed    *)
(* (the cleared input, the disabled button) is only in the next render.    *)
(* The setters with a function argument (setMessages) apply in turn.       *)
(***************************************************************************)
DoubleSubmit ==
    /\ NumSent + 1 < MaxSends
    /\ Trim(input) # << >>
    /\ error' = ErrorAtSend(ErrorAtSend(error))
    /\ messages' = WithMessage(WithMessage(messages, UserMsg(input)),
                             UserMsg(input))
    /\ input' = << >>
    /\ loading' = TRUE
    /\ pending' = pending \o <<Request(input, role), Request(input, role)>>
    /\ UNCHANGED <<panel, role, results, condition, last>>

NextBurst == Next \/ DoubleSubmit

SpecBurst == Init /\ [][NextBurst]_vars

\* C18: At most one request in flight.  Between a handleSend that turns
\* loading on and the completion of its request no second request is issued,
\* also when two submit events arrive before the component renders again.
C18_OneRequestInFlight ==
    /\ Len(pending) <= 1
    /\ loading <=> pending # << >>

(***************************************************************************)
(* Properties of APIClient.postQuery over every outcome of the HTTP call   *)
(* (checked under SpecPipeline).                                           *)
(***************************************************************************)
\* what api.postQuery settles to for the exchange served last
Settled == postQueryAsync(last.outcome)

\* C14: postQuery never rejects.  Whatever the HTTP call ended in (a reply,
\* an error status, a network error, the timeout), the promise is fulfilled:
\* with the response data when the call succeeded, and otherwise with an
\* object whose error is a non-empty string, condition '', results [] and
\* count 0.
C14_PostQueryNeverRejects ==
    /\ ~Settled.rejected
    /\ last.outcome.fulfilled => Settled.value = last.outcome.data
    /\ ~last.outcome.fulfilled =>
          /\ Settled.value.error # ""
          /\ Settled.value.condition = << >>
          /\ Settled.value.results = << >>
          /\ Settled.value.count = 0

\* the timeout expired, and the caller still got a value
C14_Witness ==
    /\ last.fault = "timeout"
    /\ ~last.outcome.fulfilled
    /\ ~last.outcome.hasResponse
    /\ ~Settled.rejected
    /\ Settled.value.error # ""

\* what line 57 of apis.js reads like: the server's detail, else the
\* transport's message, else the fixed text
ErrorAsWritten(ax) ==
    IF ax.hasResponse /\ ax.data.detail # "" THEN ax.data.detail
    ELSE IF ~ax.hasResponse /\ ax.message # "" THEN ax.message
    ELSE FailedToProcess

\* C16: The error postQuery resolves with.  With the response interceptor
\* installed, a failed POST resolves with error equal to the detail of the
\* server's response body when there is one, to the transport error's
\* message when there is no response, and to 'Failed to process query' only
\* when neither exists.
C16_ErrorFromDetailOrMessage ==
    ~last.outcome.fulfilled =>
        Settled.value.error = ErrorAsWritten(last.outcome)

(***************************************************************************)
(* ResultsPanel: the table of the results, sorted by the column clicked.   *)
(* The rows are Records; Object.keys of the first one gives the headers.   *)
(* A click on a header calls handleSort with it.  streak is no state of    *)
(* the program: it counts the clicks made in a row on the current column.  *)
(***************************************************************************)
\* clicks in a row on one column
MaxClicks == 4

\* Object.keys(results[0]), none without rows
Headers(rows) == IF rows = << >> THEN {} ELSE DOMAIN rows[1]

\* typeof of a row's value under the key
TypeOf(key) ==
    IF key \in {"grade", "quiz_score"} THEN "number" ELSE "string"

\* String(v).toLowerCase() of the strings the rows hold
ToLowerCase(v) ==
    CASE v = "A" -> "a"
      [] v = "B" -> "b"
      [] v = "Yes" -> "yes"
      [] v = "No" -> "no"
      [] OTHER -> v

\* the strings in the order localeCompare puts them
Collation == <<"a", "b", "no", "s1", "s2", "s3", "s4", "s5", "yes">>

RankOf(x) == CHOOSE k \in DOMAIN Collation : Collation[k] = x

\* a.localeCompare(b): negative, zero or positive
LocaleCompare(a, b) ==
    IF RankOf(a) < RankOf(b) THEN -1
    ELSE IF RankOf(a) > RankOf(b) THEN 1 ELSE 0

\* the comparator handed to sort
CompareRows(a, b, cfg) ==
    LET aVal == a[cfg.key]
        bVal == b[cfg.key]
    IN  IF TypeOf(cfg.key) = "number"
        THEN IF cfg.direction = "asc" THEN aVal - bVal ELSE bVal - aVal
        ELSE LET aStr == ToLowerCase(aVal)
                 bStr == ToLowerCase(bVal)
             IN  IF cfg.direction = "asc"
                 THEN LocaleCompare(aStr, bStr)
                 ELSE LocaleCompare(bStr, aStr)

\* x put behind every row of s that does not come after it
RECURSIVE InsertSorted(_, _, _)
InsertSorted(x, s, cfg) ==
    IF s = << >> THEN <<x>>
    ELSE IF CompareRows(Head(s), x, cfg) <= 0
         THEN <<Head(s)>> \o InsertSorted(x, Tail(s), cfg)
         ELSE <<x>> \o s

\* Array.prototype.sort with the comparator: a stable sort
RECURSIVE Sort(_, _)
Sort(rows, cfg) ==
    IF rows = << >> THEN << >>
    ELSE InsertSorted(rows[Len(rows)],
                      Sort(SubSeq(rows, 1, Len(rows) - 1), cfg), cfg)

\* the rows unsorted while no column was clicked, a sorted copy after
SortedResults(rows, cfg) ==
    IF cfg.key = NullKey \/ rows = << >> THEN rows ELSE Sort(rows, cfg)

\* useMemo(..., [results, sortConfig])
sortedResults == SortedResults(results, sortConfig)

\* a direction that never goes back to 'asc' on the same column
NextDirectionOnce(prev, key) ==
    IF prev.key = key THEN "desc" ELSE "asc"

\* prev.key === key && prev.direction === 'asc' ? 'desc' : 'asc'
NextDirection(prev, key) ==
    IF prev.key = key /\ prev.direction = "asc" THEN "desc" ELSE "asc"

\* a click on the header of column key
HandleSort(key) ==
    /\ key \in Headers(results)
    /\ key = sortConfig.key => streak < MaxClicks
    /\ sortConfig' = [key |-> key, direction |-> NextDirection(sortConfig, key)]
    /\ streak' = IF key = sortConfig.key THEN streak + 1 ELSE 1
    /\ UNCHANGED <<role, input, loading, error, messages, results, condition,
                   pending, last>>

\* the panel is given a result set one Record longer
GiveRecord(i) ==
    /\ Len(results) < MaxRows
    /\ results' = Append(results, Dataset[i])
    /\ UNCHANGED <<panel, role, input, loading, error, messages, condition,
                   pending, last>>

NextPanel ==
    \/ \E i \in DOMAIN Dataset : GiveRecord(i)
    \/ \E key \in Headers(results) : HandleSort(key)

SpecPanel == Init /\ [][NextPanel]_vars

\* how often x occurs in s
Occurrences(x, s) == Cardinality({k \in DOMAIN s : s[k] = x})

\* the same rows, each as often, in some order
IsPermutation(s, t) ==
    /\ Len(s) = Len(t)
    /\ {s[k] : k \in DOMAIN s} = {t[k] : k \in DOMAIN t}
    /\ \A k \in DOMAIN s : Occurrences(s[k], s) = Occurrences(s[k], t)

\* C21: handleSort is a toggle per column.  A click on a column that is not
\* the sort key makes it the key with direction 'asc'; a click on the sort
\* key turns 'asc' into 'desc' and 'desc' into 'asc'; so the direction is
\* 'desc' exactly after an even number of clicks in a row on one column.  A
\* click leaves the results it was given as they are, and the rows displayed
\* are always the rows given, each as often, in some order.
C21_SortIsToggle ==
    /\ [][panel' # panel =>
             /\ results' = results
             /\ sortConfig'.key \in Headers(results)
             /\ sortConfig'.direction \in {"asc", "desc"}
             /\ sortConfig'.key # sortConfig.key =>
                    sortConfig'.direction = "asc"
             /\ sortConfig'.key = sortConfig.key =>
                    sortConfig'.direction # sortConfig.direction]_vars
    /\ [](sortConfig.direction = "desc" <=> (streak > 0 /\ streak % 2 = 0))
    /\ [](IsPermutation(sortedResults, results))

\* the second click in a row on quiz_score: the rows are shown highest score
\* first, which is not the order they were given in
C21_Witness ==
    /\ sortConfig = [key |-> "quiz_score", direction |-> "desc"]
    /\ streak = 2
    /\ Len(results) >= 2
    /\ sortedResults # results
    /\ \A k \in 1..(Len(sortedResults) - 1) :
          sortedResults[k].quiz_score >= sortedResults[k + 1].quiz_score

=============================================================================
